---- MODULE Spec2Model ----
(***************************************************************************)
(* A model of mcpc/helper.py: the MCPCHelper task registry                 *)
(* (start_task, check_task, stop_task, cleanup_task), the threads it       *)
(* launches, create_message, and send_direct writing to the shared stdout. *)
(*                                                                         *)
(* The helper takes no lock anywhere, so every method is modelled at the   *)
(* granularity of its accesses to shared objects: one action per access,   *)
(* interleaved freely between the threads that call the helper.            *)
(***************************************************************************)
EXTENDS Integers, Sequences, FiniteSets, TLC

\* ---------------------------------------------------------------- bounds
NumCallers == 2      \* threads that call the registry methods
NumTaskIds == 2      \* distinct task_id strings in use
MaxThreads == 2      \* threading.Thread objects created over a run

Callers == 1..NumCallers
TaskIds == 1..NumTaskIds
Handles == 1..MaxThreads
None    == 0

\* ------------------------------------------------- caller-supplied work
\* line 45: all the helper tells apart about worker_func is whether it is a
\* coroutine function. What its body does (return, raise, call send_direct,
\* never finish) is the nondeterminism of the thread's steps below.
Kinds == {"sync", "async"}

VARIABLES
    background_tasks,  \* self.background_tasks: task_id -> record (a handle) or None
    rec,               \* the record dicts, one per start_task call, by handle
    thr,               \* the Thread objects, one per start_task call, by handle
    nextHandle,        \* the next Thread/record to be allocated
    pc,                \* per caller: where it is inside a registry method
    arg,               \* per caller: the task_id of the call in progress
    local,             \* per caller: thread / task_info local of the call in progress
    ret,               \* the outcome of the registry call that finished in the last step
    snd,               \* per thread: where it is inside send_direct
    stdout,            \* what sys.stdout has been handed, in order
    flushed,           \* how much of stdout has been flushed
    msg,               \* the last create_message call: its arguments and result
    started            \* history: task_ids ever passed to start_task

vars == << background_tasks, rec, thr, nextHandle, pc, arg, local, ret,
           snd, stdout, flushed, msg, started >>

regVars    == << background_tasks, rec, nextHandle, started >>
sendVars   == << snd, stdout, flushed, msg >>

\* ------------------------------------------------------------- records
NoRec == [start_time |-> 0, status |-> "none", is_running |-> "unset"]

\* line 63: time.time() as read by the start_task call that creates thread h;
\* the clock is logical, one tick per call
Time(h) == h

NewRecordPending(t) == [start_time |-> t, status |-> "pending", is_running |-> "unset"]

\* lines 61-65: the dict literal stored by start_task
NewRecord(t) == [start_time |-> t, status |-> "running", is_running |-> "unset"]

NoThread == [kind |-> "none", st |-> "unborn", loop |-> "none", outcome |-> "none"]

NewThreadMissing(k) == [kind |-> "none", st |-> "unborn", loop |-> "none", outcome |-> "none"]

\* line 60: threading.Thread(target=target_func, daemon=True), not yet started
NewThread(k) == [kind |-> k, st |-> "new", loop |-> "none", outcome |-> "none"]

NoSend == [pc |-> "none", exc |-> "none", n |-> 0, result |-> "none"]

\* no create_message call has been made yet
NoMsg == [args |-> << >>, out |-> [status |-> "none"]]

\* ret is set by the step in which a registry call returns or raises, and
\* reset by every other step
NoRet == [op |-> "none", id |-> None, val |-> "none", h |-> None,
          running |-> "unset"]

IsAliveStForever(st) == st \in {"run", "loop", "closing", "exit", "dead"}

\* Thread.is_alive(): true from the moment start() has run the thread until
\* its run() has finished.
IsAliveSt(st) == st \in {"run", "loop", "closing", "exit"}

IsAlive(h) == IsAliveSt(thr[h].st)

Init ==
    /\ background_tasks = [i \in TaskIds |-> None]
    /\ rec = [h \in Handles |-> NoRec]
    /\ thr = [h \in Handles |-> NoThread]
    /\ nextHandle = 1
    /\ pc = [c \in Callers |-> "idle"]
    /\ arg = [c \in Callers |-> None]
    /\ local = [c \in Callers |-> None]
    /\ ret = NoRet
    /\ snd = [h \in Handles |-> NoSend]
    /\ stdout = << >>
    /\ flushed = 0
    /\ msg = NoMsg
    /\ started = {}

\* The caller is between two registry calls.
Idle(c) == pc[c] = "idle"

\* ------------------------------------------------------------ start_task
\* lines 42-65: build the wrapper, create the Thread, store the record.
\* The Thread object is reachable by other threads only through the record,
\* so creation and the dict store are one step.
StoreIfAbsent(bt, id, h) == IF bt[id] = None THEN [bt EXCEPT ![id] = h] ELSE bt

\* line 61: self.background_tasks[task_id] = {...}
Store(bt, id, h) == [bt EXCEPT ![id] = h]

StartTaskRegister(c, id, k) ==
    /\ Idle(c)
    /\ nextHandle <= MaxThreads
    /\ LET h == nextHandle IN
        /\ thr' = [thr EXCEPT ![h] = NewThread(k)]
        /\ rec' = [rec EXCEPT ![h] = NewRecord(Time(h))]
        /\ background_tasks' = Store(background_tasks, id, h)
        /\ local' = [local EXCEPT ![c] = h]
    /\ nextHandle' = nextHandle + 1
    /\ started' = started \cup {id}
    /\ pc' = [pc EXCEPT ![c] = "start_thread"]
    /\ arg' = [arg EXCEPT ![c] = id]
    /\ ret' = NoRet
    /\ UNCHANGED sendVars

\* line 66: thread.start(); the new thread runs from here on
StartTaskRun(c) ==
    /\ pc[c] = "start_thread"
    /\ thr' = [thr EXCEPT ![local[c]].st = "run"]
    /\ pc' = [pc EXCEPT ![c] = "start_return"]
    /\ ret' = NoRet
    /\ UNCHANGED << regVars, arg, local, sendVars >>

StartTaskReturnJoins(c) ==
    /\ pc[c] = "start_return"
    /\ thr[local[c]].st = "dead"
    /\ pc' = [pc EXCEPT ![c] = "idle"]
    /\ ret' = [NoRet EXCEPT !.op = "start", !.id = arg[c], !.h = local[c]]
    /\ arg' = [arg EXCEPT ![c] = None]
    /\ local' = [local EXCEPT ![c] = None]
    /\ UNCHANGED << regVars, thr, sendVars >>

\* line 67: the log line, then start_task returns
StartTaskReturn(c) ==
    /\ pc[c] = "start_return"
    /\ pc' = [pc EXCEPT ![c] = "idle"]
    /\ ret' = [NoRet EXCEPT !.op = "start", !.id = arg[c], !.h = local[c]]
    /\ arg' = [arg EXCEPT ![c] = None]
    /\ local' = [local EXCEPT ![c] = None]
    /\ UNCHANGED << regVars, thr, sendVars >>

\* ------------------------------------------------------------ check_task
\* line 71: self.background_tasks.get(task_id, {}); None stands for the
\* fresh empty dict of a miss
CheckGet(bt, id) == bt[id]

\* lines 71-73, 78: the lookup; a miss is falsy and is returned at once
CheckTaskGet(c, id) ==
    /\ Idle(c)
    /\ LET task_info == CheckGet(background_tasks, id) IN
         IF task_info = None
         THEN /\ ret' = [NoRet EXCEPT !.op = "check", !.id = id, !.val = "empty"]
              /\ pc' = [pc EXCEPT ![c] = "idle"]
              /\ arg' = [arg EXCEPT ![c] = None]
              /\ local' = [local EXCEPT ![c] = None]
         ELSE /\ pc' = [pc EXCEPT ![c] = "check_alive"]
              /\ arg' = [arg EXCEPT ![c] = id]
              /\ local' = [local EXCEPT ![c] = task_info]
              /\ ret' = NoRet
    /\ UNCHANGED << regVars, thr, sendVars >>

\* lines 74-78: task_info["is_running"] = thread.is_alive(); return task_info.
\* task_info is the stored dict itself, so the flag is written into the
\* record and the caller is handed a reference to the record.
CheckTaskAlive(c) ==
    /\ pc[c] = "check_alive"
    /\ LET h == local[c]
           alive == IF IsAlive(h) THEN "true" ELSE "false" IN
        /\ rec' = [rec EXCEPT ![h].is_running = alive]
        /\ ret' = [NoRet EXCEPT !.op = "check", !.id = arg[c], !.val = "hit", !.h = h,
                               !.running = alive]
    /\ pc' = [pc EXCEPT ![c] = "idle"]
    /\ arg' = [arg EXCEPT ![c] = None]
    /\ local' = [local EXCEPT ![c] = None]
    /\ UNCHANGED << background_tasks, nextHandle, started, thr, sendVars >>

\* ------------------------------------------------------------- stop_task
StopFoundAlways(bt, id) == TRUE

\* line 82: task_id in self.background_tasks
StopFound(bt, id) == bt[id] # None

\* lines 82, 85: the membership test; a miss returns False
StopTaskTest(c, id) ==
    /\ Idle(c)
    /\ IF StopFound(background_tasks, id)
       THEN /\ pc' = [pc EXCEPT ![c] = "stop_set"]
            /\ arg' = [arg EXCEPT ![c] = id]
            /\ ret' = NoRet
       ELSE /\ ret' = [NoRet EXCEPT !.op = "stop", !.id = id, !.val = "false"]
            /\ pc' = [pc EXCEPT ![c] = "idle"]
            /\ arg' = [arg EXCEPT ![c] = None]
    /\ local' = [local EXCEPT ![c] = None]
    /\ UNCHANGED << regVars, thr, sendVars >>

StopTaskSetCancels(c) ==
    /\ pc[c] = "stop_set"
    /\ LET h == background_tasks[arg[c]] IN
         IF h = None
         THEN /\ ret' = [NoRet EXCEPT !.op = "stop", !.id = arg[c], !.val = "KeyError"]
              /\ UNCHANGED << rec, thr >>
         ELSE /\ rec' = [rec EXCEPT ![h].status = "stopping"]
              /\ thr' = [thr EXCEPT ![h].st = "dead"]
              /\ ret' = [NoRet EXCEPT !.op = "stop", !.id = arg[c], !.val = "true",
                                      !.h = h]
    /\ pc' = [pc EXCEPT ![c] = "idle"]
    /\ arg' = [arg EXCEPT ![c] = None]
    /\ UNCHANGED << background_tasks, nextHandle, started, local, sendVars >>

StopTaskSetOnCopy(c) ==
    /\ pc[c] = "stop_set"
    /\ LET h == background_tasks[arg[c]] IN
         IF h = None
         THEN ret' = [NoRet EXCEPT !.op = "stop", !.id = arg[c], !.val = "KeyError"]
         ELSE ret' = [NoRet EXCEPT !.op = "stop", !.id = arg[c], !.val = "true",
                                   !.h = h]
    /\ pc' = [pc EXCEPT ![c] = "idle"]
    /\ arg' = [arg EXCEPT ![c] = None]
    /\ UNCHANGED << regVars, thr, local, sendVars >>

\* lines 83-84: self.background_tasks[task_id]["status"] = "stopping"; the
\* subscript raises KeyError when the entry has gone since the test
StopTaskSet(c) ==
    /\ pc[c] = "stop_set"
    /\ LET h == background_tasks[arg[c]] IN
         IF h = None
         THEN /\ ret' = [NoRet EXCEPT !.op = "stop", !.id = arg[c], !.val = "KeyError"]
              /\ UNCHANGED rec
         ELSE /\ rec' = [rec EXCEPT ![h].status = "stopping"]
              /\ ret' = [NoRet EXCEPT !.op = "stop", !.id = arg[c], !.val = "true",
                                      !.h = h]
    /\ pc' = [pc EXCEPT ![c] = "idle"]
    /\ arg' = [arg EXCEPT ![c] = None]
    /\ UNCHANGED << background_tasks, nextHandle, started, thr, local, sendVars >>

\* ---------------------------------------------------------- cleanup_task
PopNoDefault(bt, id) ==
    IF bt[id] = None THEN [bt |-> bt, val |-> None, exc |-> "KeyError"]
    ELSE [bt |-> [bt EXCEPT ![id] = None], val |-> bt[id], exc |-> "none"]

\* line 90: self.background_tasks.pop(task_id, None): the entry removed and
\* its record, or None and no error when there is none
Pop(bt, id) == [bt |-> [bt EXCEPT ![id] = None], val |-> bt[id], exc |-> "none"]

CleanupFoundWhenOver(bt, id) == bt[id] # None /\ ~IsAlive(bt[id])

\* line 89: task_id in self.background_tasks
CleanupFound(bt, id) == bt[id] # None

\* lines 89-91: cleanup_task run without interruption
CleanupCall(bt, id) ==
    IF CleanupFound(bt, id) THEN Pop(bt, id)
    ELSE [bt |-> bt, val |-> None, exc |-> "none"]

\* line 89: the membership test; a miss returns None
CleanupTaskTest(c, id) ==
    /\ Idle(c)
    /\ IF CleanupFound(background_tasks, id)
       THEN /\ pc' = [pc EXCEPT ![c] = "cleanup_pop"]
            /\ arg' = [arg EXCEPT ![c] = id]
            /\ ret' = NoRet
       ELSE /\ ret' = [NoRet EXCEPT !.op = "cleanup", !.id = id]
            /\ pc' = [pc EXCEPT ![c] = "idle"]
            /\ arg' = [arg EXCEPT ![c] = None]
    /\ local' = [local EXCEPT ![c] = None]
    /\ UNCHANGED << regVars, thr, sendVars >>

\* lines 90-91: the pop, then return
CleanupTaskPop(c) ==
    /\ pc[c] = "cleanup_pop"
    /\ LET r == Pop(background_tasks, arg[c]) IN
        /\ background_tasks' = r.bt
        /\ ret' = [NoRet EXCEPT !.op = "cleanup", !.id = arg[c], !.val = r.exc,
                                !.h = r.val]
    /\ pc' = [pc EXCEPT ![c] = "idle"]
    /\ arg' = [arg EXCEPT ![c] = None]
    /\ UNCHANGED << rec, nextHandle, started, thr, local, sendVars >>

\* ------------------------------------------------------- the task threads
Outcomes == {"returned", "raised"}

\* lines 55-56: sync_wrapper; worker_func returns or raises
SyncWorkEnd(h, o) ==
    /\ thr[h].st = "run"
    /\ thr[h].kind = "sync"
    /\ thr' = [thr EXCEPT ![h].outcome = o, ![h].st = "exit"]
    /\ ret' = NoRet
    /\ UNCHANGED << regVars, pc, arg, local, sendVars >>

\* lines 47-48: async_wrapper creates the event loop inside the new thread
AsyncNewLoop(h) ==
    /\ thr[h].st = "run"
    /\ thr[h].kind = "async"
    /\ thr' = [thr EXCEPT ![h].loop = "open", ![h].st = "loop"]
    /\ ret' = NoRet
    /\ UNCHANGED << regVars, pc, arg, local, sendVars >>

AsyncWorkNotDriven(h, o) ==
    /\ thr[h].st = "loop"
    /\ snd[h].pc \in {"none", "done"}
    /\ thr' = [thr EXCEPT ![h].st = "closing"]
    /\ ret' = NoRet
    /\ UNCHANGED << regVars, pc, arg, local, sendVars >>

\* line 50: run_until_complete returns, or raises what the coroutine raised
AsyncWorkEnd(h, o) ==
    /\ thr[h].st = "loop"
    /\ snd[h].pc \in {"none", "done"}
    /\ thr' = [thr EXCEPT ![h].outcome = o, ![h].st = "closing"]
    /\ ret' = NoRet
    /\ UNCHANGED << regVars, pc, arg, local, sendVars >>

AsyncLoopLeaks(h) ==
    /\ thr[h].st = "closing"
    /\ thr' = [thr EXCEPT ![h].loop = IF thr[h].outcome = "raised" THEN "open" ELSE "closed",
                          ![h].st = "exit"]
    /\ ret' = NoRet
    /\ UNCHANGED << regVars, pc, arg, local, sendVars >>

\* lines 51-52: finally: loop.close(); the wrapper is then over
AsyncLoopClose(h) ==
    /\ thr[h].st = "closing"
    /\ thr' = [thr EXCEPT ![h].loop = "closed", ![h].st = "exit"]
    /\ ret' = NoRet
    /\ UNCHANGED << regVars, pc, arg, local, sendVars >>

ThreadExitMarksCompleted(h) ==
    /\ thr[h].st = "exit"
    /\ thr' = [thr EXCEPT ![h].st = "dead"]
    /\ rec' = [rec EXCEPT ![h].status = "completed"]
    /\ ret' = NoRet
    /\ UNCHANGED << background_tasks, nextHandle, started, pc, arg, local, sendVars >>

\* the thread's run() is over: is_alive() is false from here on
ThreadExit(h) ==
    /\ thr[h].st = "exit"
    /\ thr' = [thr EXCEPT ![h].st = "dead"]
    /\ ret' = NoRet
    /\ UNCHANGED << regVars, pc, arg, local, sendVars >>

\* ------------------------------------------------- a work function that polls
\* A cooperating work function: the body of the synchronous thread h calls
\* check_task(id) (lines 71-78) and returns when the result says "stopping".
\* The worker acts on the status alone, so its call is taken as one step.
PollTask(h, id) ==
    /\ thr[h].kind = "sync"
    /\ thr[h].st = "run"
    /\ LET task_info == CheckGet(background_tasks, id) IN
        /\ rec' = IF task_info = None THEN rec
                  ELSE [rec EXCEPT ![task_info].is_running =
                                      IF IsAlive(task_info) THEN "true" ELSE "false"]
        /\ thr' = IF task_info # None /\ rec[task_info].status = "stopping"
                  THEN [thr EXCEPT ![h].st = "exit", ![h].outcome = "returned"]
                  ELSE thr
    /\ ret' = NoRet
    /\ UNCHANGED << background_tasks, nextHandle, started, pc, arg, local, sendVars >>

\* the work of thread h polls the task_id it is registered under
PollOwn(h) == \E id \in TaskIds : background_tasks[id] = h /\ PollTask(h, id)

\* ----------------------------------------------------------- send_direct
\* lines 114-125: the JSON-RPC envelope around the message, as the pieces
\* the stream is handed: what precedes the text, and the text to the end
Serialize(m) == << << "head", m >>, << "text", m >> >>

\* line 128: serialized + "\n"
Line(m) == Serialize(m) \o << << "nl", m >> >>

HandlerCatchesValueErrorOnly(e) == e = "ValidationError"

\* line 134: except Exception
HandlerCatches(e) == e \in {"ValidationError", "OSError"}

\* lines 114-125: build and serialize the response; pydantic raises
\* ValidationError on a message it rejects. The work of thread h awaits
\* send_direct on its own loop, at most once.
SendCompose(h, ok) ==
    /\ thr[h].st = "loop"
    /\ snd[h].pc = "none"
    /\ snd' = [snd EXCEPT ![h] = IF ok THEN [NoSend EXCEPT !.pc = "write"]
                 ELSE [NoSend EXCEPT !.pc = "except", !.exc = "ValidationError"]]
    /\ ret' = NoRet
    /\ UNCHANGED << regVars, thr, pc, arg, local, stdout, flushed, msg >>

\* line 128: sys.stdout.write(serialized + "\n"). No lock is held and
\* TextIOWrapper is not thread-safe, so the stream may take the line whole
\* or in pieces between which other writers get in.
SendWrite(h, k) ==
    /\ snd[h].pc = "write"
    /\ k \in 1..(Len(Line(h)) - snd[h].n)
    /\ stdout' = stdout \o SubSeq(Line(h), snd[h].n + 1, snd[h].n + k)
    /\ snd' = [snd EXCEPT ![h].n = @ + k,
                          ![h].pc = IF snd[h].n + k = Len(Line(h)) THEN "flush" ELSE "write"]
    /\ ret' = NoRet
    /\ UNCHANGED << regVars, thr, pc, arg, local, flushed, msg >>

\* line 128: the write raises (closed or broken pipe)
SendWriteFail(h) ==
    /\ snd[h].pc = "write"
    /\ snd' = [snd EXCEPT ![h].pc = "except", ![h].exc = "OSError"]
    /\ ret' = NoRet
    /\ UNCHANGED << regVars, thr, pc, arg, local, stdout, flushed, msg >>

\* lines 129-132: sys.stdout.flush(), then return True; or the flush raises
SendFlush(h, ok) ==
    /\ snd[h].pc = "flush"
    /\ IF ok
       THEN /\ flushed' = Len(stdout)
            /\ snd' = [snd EXCEPT ![h].pc = "done", ![h].result = "true"]
       ELSE /\ snd' = [snd EXCEPT ![h].pc = "except", ![h].exc = "OSError"]
            /\ UNCHANGED flushed
    /\ ret' = NoRet
    /\ UNCHANGED << regVars, thr, pc, arg, local, stdout, msg >>

\* lines 134-136: the handler returns False; an exception it does not
\* catch leaves send_direct and ends the coroutine that awaited it
SendExcept(h) ==
    /\ snd[h].pc = "except"
    /\ IF HandlerCatches(snd[h].exc)
       THEN /\ snd' = [snd EXCEPT ![h].pc = "done", ![h].result = "false"]
            /\ UNCHANGED thr
       ELSE /\ snd' = [snd EXCEPT ![h].pc = "propagated"]
            /\ thr' = [thr EXCEPT ![h].outcome = "raised", ![h].st = "closing"]
    /\ ret' = NoRet
    /\ UNCHANGED << regVars, pc, arg, local, stdout, flushed, msg >>

\* -------------------------------------------------------- create_message
\* the argument values create_message is called with
ToolNames  == {"calc", "echo"}
SessionIds == {"sess-1", "sess-2"}
TaskNames  == {"task-9", "task-1"}
Results    == {"null", "{value: 42}"}

\* line 99: the Literal of the status parameter
MessageStatuses == {"task_created", "task_update", "task_complete", "task_failed"}

\* the MCPCMessage model: its constructor, by keyword
MCPCMessage(session_id, task_id, tool_name, result, status) ==
    [session_id |-> session_id, task_id |-> task_id, tool_name |-> tool_name,
     result |-> result, status |-> status]

\* MCPCMessage.model_dump_json(): the JSON object as its members in order,
\* each a key and a value
ToJson(m) ==
    << << "session_id", m.session_id >>, << "task_id", m.task_id >>,
       << "tool_name", m.tool_name >>, << "result", m.result >>,
       << "status", m.status >> >>

\* MCPCMessage.model_validate_json(): the model whose fields are the
\* members' keys, each holding its member's value
FromJson(j) ==
    [k \in { j[i][1] : i \in DOMAIN j } |->
        j[CHOOSE i \in DOMAIN j : j[i][1] = k][2]]

CreateMessagePositional(tool_name, session_id, task_id, result, status) ==
    MCPCMessage(tool_name, session_id, task_id, result, status)

\* lines 102-108: return MCPCMessage(session_id=..., task_id=..., ...)
CreateMessage(tool_name, session_id, task_id, result, status) ==
    MCPCMessage(session_id, task_id, tool_name, result, status)

\* lines 93-108: a create_message call by thread c, between two registry
\* calls; it reads and writes nothing of the helper
CreateMessageCall(c, tool_name, session_id, task_id, result, status) ==
    /\ Idle(c)
    /\ msg' = [args |-> << tool_name, session_id, task_id, result, status >>,
               out  |-> CreateMessage(tool_name, session_id, task_id, result, status)]
    /\ ret' = NoRet
    /\ UNCHANGED << regVars, thr, pc, arg, local, snd, stdout, flushed >>

\* what a sync_wrapper thread does
SyncThreadStep(h) ==
    \/ \E o \in Outcomes : SyncWorkEnd(h, o)
    \/ ThreadExit(h)

\* what an async_wrapper thread does, send_direct apart
AsyncThreadStep(h) ==
    \/ AsyncNewLoop(h)
    \/ \E o \in Outcomes : AsyncWorkEnd(h, o)
    \/ AsyncLoopClose(h)

ThreadStep(h) == SyncThreadStep(h) \/ AsyncThreadStep(h)

SendStep(h) ==
    \/ \E ok \in BOOLEAN : SendCompose(h, ok)
    \/ \E k \in 1..Len(Line(h)) : SendWrite(h, k)
    \/ SendWriteFail(h)
    \/ \E ok \in BOOLEAN : SendFlush(h, ok)
    \/ SendExcept(h)

\* a registry call made by thread c
CallerStep(c, kinds) ==
    \/ \E id \in TaskIds, k \in kinds : StartTaskRegister(c, id, k)
    \/ StartTaskRun(c)
    \/ StartTaskReturn(c)
    \/ \E id \in TaskIds : CheckTaskGet(c, id)
    \/ CheckTaskAlive(c)
    \/ \E id \in TaskIds : StopTaskTest(c, id)
    \/ StopTaskSet(c)
    \/ \E id \in TaskIds : CleanupTaskTest(c, id)
    \/ CleanupTaskPop(c)

\* the steps by which thread c goes on with the registry call it is inside
Finish(c) ==
    \/ StartTaskRun(c)
    \/ StartTaskReturn(c)
    \/ CheckTaskAlive(c)
    \/ StopTaskSet(c)
    \/ CleanupTaskPop(c)

\* Spec: the registry called from several threads at once, with
\* synchronous work.
Next ==
    \/ \E c \in Callers : CallerStep(c, {"sync"})
    \/ \E h \in Handles : SyncThreadStep(h)

Spec == Init /\ [][Next]_vars

\* TaskSpec: the registry called from one thread, with work of either kind.
Main == CHOOSE c \in Callers : \A d \in Callers : c <= d

TaskNext ==
    \/ CallerStep(Main, Kinds)
    \/ \E h \in Handles : ThreadStep(h)

TaskSpec == Init /\ [][TaskNext]_vars

\* FairTaskSpec: TaskSpec where every started thread is scheduled and every
\* work function's body comes to an end.
FairTaskSpec == TaskSpec /\ \A h \in Handles : WF_vars(ThreadStep(h))

\* CallSpec: TaskSpec where the calling thread is scheduled, and nothing is
\* assumed of the task threads: a work function may never come to an end.
CallSpec == TaskSpec /\ WF_vars(Finish(Main))

\* SendSpec: asynchronous tasks that each await send_direct once.
SendNext ==
    \/ \E id \in TaskIds : StartTaskRegister(Main, id, "async")
    \/ StartTaskRun(Main)
    \/ StartTaskReturn(Main)
    \/ \E h \in Handles : AsyncThreadStep(h) \/ ThreadExit(h)
    \/ \E h \in Handles : SendStep(h)

SendSpec == Init /\ [][SendNext]_vars

\* PollSpec: the registry called from one thread, with synchronous work that
\* polls check_task and returns on "stopping".
PollNext ==
    \/ CallerStep(Main, {"sync"})
    \/ \E h \in Handles, id \in TaskIds : PollTask(h, id)
    \/ \E h \in Handles : ThreadExit(h)

PollSpec == Init /\ [][PollNext]_vars

\* FairPollSpec: PollSpec where every worker keeps polling its own task_id.
FairPollSpec == PollSpec /\ \A h \in Handles : WF_vars(PollOwn(h))

\* MsgSpec: one thread that calls the registry and create_message.
MsgNext ==
    \/ CallerStep(Main, {"sync"})
    \/ \E tool_name \in ToolNames, session_id \in SessionIds, task_id \in TaskNames,
          result \in Results, status \in MessageStatuses :
            CreateMessageCall(Main, tool_name, session_id, task_id, result, status)

MsgSpec == Init /\ [][MsgNext]_vars
\* ===================================================================
\* Properties of the registry under concurrent callers (Spec)
\* ===================================================================

\* C1: for every task_id never passed to start_task, a check_task that has
\* just returned returned the empty result, a stop_task that has just
\* returned returned False (it did not raise), and the registry holds no
\* entry for that task_id.
C1_UnknownTaskIsAMiss ==
    \A id \in TaskIds \ started :
        /\ background_tasks[id] = None
        /\ (ret.op = "check" /\ ret.id = id) => ret.val = "empty"
        /\ (ret.op = "stop" /\ ret.id = id) => ret.val = "false"

\* stop_task has just returned False for an id never started, while another
\* task is registered
C1_Witness ==
    /\ ret.op = "stop"
    /\ ret.id \notin started
    /\ ret.val = "false"
    /\ \E id \in TaskIds : background_tasks[id] # None

\* C4: cleanup_task is idempotent. From every reachable registry, running
\* cleanup_task(id) twice leaves what running it once leaves, the second
\* run changes nothing and neither raises; and every cleanup_task call that
\* has just returned, whatever other threads did meanwhile, returned
\* normally with the id absent.
C4_CleanupIdempotent ==
    /\ \A id \in TaskIds :
         LET once  == CleanupCall(background_tasks, id)
             twice == CleanupCall(once.bt, id)
         IN  /\ once.exc = "none"
             /\ twice.exc = "none"
             /\ twice.bt = once.bt
             /\ once.bt[id] = None
             /\ \A other \in TaskIds \ {id} : once.bt[other] = background_tasks[other]
    /\ ret.op = "cleanup" => (ret.val = "none" /\ background_tasks[ret.id] = None)

\* cleanup_task has just returned for an id that had been started and was
\* already removed: the call that finds nothing to remove
C4_Witness ==
    /\ ret.op = "cleanup"
    /\ ret.id \in started
    /\ ret.h = None
    /\ ret.val = "none"

\* C8: no registry call ever raises: check_task, stop_task and cleanup_task
\* return normally in every interleaving.
C8_LookupNeverRaises == ret.val # "KeyError"

\* A caller is between the lookup of a registry method and the access that
\* acts on what the lookup found.
InSection(c) == pc[c] \in {"check_alive", "stop_set", "cleanup_pop"}

\* C9: no two threads are inside the read/modify section of a registry
\* method at the same time.
C9_RegistryMutex ==
    \A c1, c2 \in Callers : (c1 # c2 /\ InSection(c1)) => ~InSection(c2)
\* ===================================================================
\* Properties of one task's life (TaskSpec, FairTaskSpec)
\* ===================================================================

\* What check_task(id) returns when it runs with no step of any other
\* thread in between: lines 71-78 as one evaluation.
CheckNow(id) ==
    LET h == CheckGet(background_tasks, id) IN
      IF h = None THEN [val |-> "empty", is_running |-> "unset"]
      ELSE [val |-> "hit", is_running |-> IF IsAlive(h) THEN "true" ELSE "false"]

\* The work function of thread h has returned or raised.
WorkOver(h) == thr[h].outcome # "none"

\* C2 as stated: at the moment start_task(id, synchronous work) returns,
\* check_task(id).is_running is true.
C2_RunningWhenStartReturns ==
    (ret.op = "start" /\ thr[ret.h].kind = "sync")
        => CheckNow(ret.id).is_running = "true"

\* C2, amended: a check_task that finds a started synchronous task whose work
\* function has not yet returned or raised reports is_running true (by the
\* time start_task returns the work may already be over); and once the work
\* function is over the thread ends, so that is_running is false, by the
\* thread's own steps alone.
C2_RunningUntilWorkOver ==
    /\ [](\A id \in TaskIds :
            LET h == CheckGet(background_tasks, id) IN
              (h # None /\ thr[h].kind = "sync" /\ thr[h].st # "new" /\ ~WorkOver(h))
                  => CheckNow(id).is_running = "true")
    /\ []((ret.op = "check" /\ ret.val = "hit" /\ thr[ret.h].kind = "sync"
              /\ thr[ret.h].st # "new" /\ ~WorkOver(ret.h))
            => ret.running = "true")
    /\ \A h \in Handles :
          (thr[h].kind = "sync" /\ WorkOver(h)) ~> [](~IsAlive(h))

\* check_task has just reported is_running false for a synchronous task
\* whose work function returned
C2_Witness ==
    /\ ret.op = "check"
    /\ ret.val = "hit"
    /\ ret.running = "false"
    /\ thr[ret.h].kind = "sync"
    /\ thr[ret.h].outcome = "returned"

\* C3: an asynchronous task, once its thread is started, is driven to the
\* end of its work by the thread's own event loop: the loop is opened and
\* closed by the thread, no step of the caller touches a thread's loop or
\* its work, the thread ends, and is_running is false from then on.
C3_AsyncRunsToCompletion ==
    /\ \A h \in Handles :
          (thr[h].kind = "async" /\ thr[h].st = "run")
              ~> [](WorkOver(h) /\ thr[h].loop = "closed" /\ ~IsAlive(h))
    /\ [][CallerStep(Main, Kinds) =>
            \A h \in Handles : /\ thr'[h].loop = thr[h].loop
                               /\ thr'[h].outcome = thr[h].outcome]_vars

\* an asynchronous task ran to its return, its loop is closed, and a
\* check_task has just reported it not running
C3_Witness ==
    /\ ret.op = "check"
    /\ ret.val = "hit"
    /\ ret.running = "false"
    /\ thr[ret.h].kind = "async"
    /\ thr[ret.h].outcome = "returned"
    /\ thr[ret.h].loop = "closed"

\* C5: stop_task on a registered id sets the record's status to "stopping"
\* and returns True, and on an id not registered returns False; no step of
\* stop_task changes any thread; and a thread whose record says "stopping"
\* still runs its work to the end.
C5_StopIsAdvisory ==
    /\ [](ret.op = "stop" =>
            IF ret.h # None
            THEN ret.val = "true" /\ rec[ret.h].status = "stopping"
                 /\ background_tasks[ret.id] = ret.h
            ELSE ret.val = "false" /\ background_tasks[ret.id] = None)
    /\ [][((\E id \in TaskIds : StopTaskTest(Main, id)) \/ StopTaskSet(Main))
            => thr' = thr]_vars
    /\ \A h \in Handles :
          (rec[h].status = "stopping" /\ IsAlive(h) /\ ~WorkOver(h))
              ~> (WorkOver(h) /\ ~IsAlive(h))

\* stop_task has just returned True for a task whose work is still running
C5_Witness ==
    /\ ret.op = "stop"
    /\ ret.val = "true"
    /\ rec[ret.h].status = "stopping"
    /\ thr[ret.h].st \in {"run", "loop"}

\* The thread h is registered under no task_id.
Orphan(h) == \A id \in TaskIds : background_tasks[id] # h

\* C7: start_task on an id that is already registered replaces the entry:
\* the id then maps to the new thread's record, with status "running"; the
\* old thread is left as it was by every step of the call; when the call
\* returns the entry is still the new one; and the old thread, registered
\* nowhere, still runs to its end.
C7_Overwrite ==
    /\ [][\A id \in TaskIds, k \in Kinds :
            (StartTaskRegister(Main, id, k) /\ background_tasks[id] # None) =>
               LET old == background_tasks[id]
                   new == background_tasks'[id]
               IN  /\ new = nextHandle
                   /\ new # old
                   /\ thr'[new] = NewThread(k)
                   /\ rec'[new].status = "running"
                   /\ thr'[old] = thr[old]
                   /\ rec'[old] = rec[old]
                   /\ \A other \in TaskIds : background_tasks'[other] # old]_vars
    /\ [][(StartTaskRun(Main) \/ StartTaskReturn(Main)) =>
            \A h \in Handles \ {local[Main]} : thr'[h] = thr[h]]_vars
    /\ [](ret.op = "start" =>
            /\ background_tasks[ret.id] = ret.h
            /\ rec[ret.h].status = "running")
    /\ \A h \in Handles :
          (Orphan(h) /\ thr[h].st \in {"run", "loop"}) ~> (WorkOver(h) /\ ~IsAlive(h))

\* the second start_task of the only id ever started has just returned while
\* the first thread's work is still running
C7_Witness ==
    /\ ret.op = "start"
    /\ started = {ret.id}
    /\ \E old \in Handles \ {ret.h} :
          /\ Orphan(old)
          /\ thr[old].st \in {"run", "loop"}
\* ===================================================================
\* Properties of send_direct (SendSpec)
\* ===================================================================

\* s is a run of whole lines, each the complete output of one send_direct
RECURSIVE WholeLines(_)
WholeLines(s) ==
    \/ s = << >>
    \/ \E h \in Handles :
          /\ Len(s) >= Len(Line(h))
          /\ SubSeq(s, 1, Len(Line(h))) = Line(h)
          /\ WholeLines(SubSeq(s, Len(Line(h)) + 1, Len(s)))

\* the threads whose send_direct returned True
Sent == { h \in Handles : snd[h].result = "true" }

\* no send_direct is under way and none has failed
SendsQuiet == \A h \in Handles : snd[h].pc \in {"none", "done"} /\ snd[h].exc = "none"

\* C6: when the N tasks that called send_direct concurrently have all
\* returned True, stdout holds exactly N whole lines, each the output of one
\* call, none partial and no two interleaved.
C6_LinesNotInterleaved ==
    SendsQuiet =>
        /\ WholeLines(stdout)
        /\ \A h \in Sent : \E i \in 1..Len(stdout) :
              SubSeq(stdout, i, i + Len(Line(h)) - 1) = Line(h)

\* C10: send_direct never lets an error out. An exception raised while
\* composing, writing or flushing is caught and the call returns False; it
\* returns True only after its whole line has been written and flushed.
C10_SendNeverRaises ==
    \A h \in Handles :
        /\ snd[h].pc # "propagated"
        /\ (snd[h].pc = "done" /\ snd[h].exc # "none") => snd[h].result = "false"
        /\ snd[h].result = "true" =>
              /\ snd[h].exc = "none"
              /\ snd[h].n = Len(Line(h))
              /\ \A i \in 1..Len(Line(h)) :
                    \E j \in 1..flushed : stdout[j] = Line(h)[i]

\* a send_direct whose flush raised after the whole line was written has
\* returned False, while another has returned True
C10_Witness ==
    \E h, g \in Handles :
        /\ snd[h].pc = "done"
        /\ snd[h].result = "false"
        /\ snd[h].exc = "OSError"
        /\ snd[h].n = Len(Line(h))
        /\ snd[g].result = "true"
\* ===================================================================
\* Properties of create_message (MsgSpec)
\* ===================================================================

\* the fields of a status message
MessageFields == {"session_id", "task_id", "tool_name", "result", "status"}

C12_WorkEndLeavesRegistry ==
    /\ [][(\E h \in Handles : ThreadStep(h)) =>
            UNCHANGED << background_tasks, rec, nextHandle >>]_vars
    /\ [][\A h \in Handles :
            rec'[h].status # rec[h].status =>
               \/ /\ rec'[h].status = "running"
                  /\ h = nextHandle
                  /\ \E id \in TaskIds, k \in Kinds : StartTaskRegister(Main, id, k)
               \/ /\ rec'[h].status = "stopping"
                  /\ StopTaskSet(Main)]_vars
    /\ [][\A id \in TaskIds :
            (background_tasks[id] # None /\ background_tasks'[id] = None) =>
               (CleanupTaskPop(Main) /\ arg[Main] = id)]_vars
    /\ [](\A id \in TaskIds :
            LET h == background_tasks[id] IN
              (h # None /\ WorkOver(h)) =>
                 /\ rec[h].start_time = Time(h)
                 /\ rec[h].status \in {"running", "stopping"})

\* a task whose work raised and whose thread is over is still registered,
\* with status "running"
C12_Witness ==
    \E id \in TaskIds :
        LET h == background_tasks[id] IN
          /\ h # None
          /\ thr[h].st = "dead"
          /\ thr[h].outcome = "raised"
          /\ rec[h].status = "running"

\* The record h has been returned by a check_task: line 76 writes the
\* is_running key into the dict that line 78 returns.
Handed(h) == rec[h].is_running # "unset"

\* C13: check_task returns a snapshot. The result of a check_task that has
\* returned keeps its status and its is_running whatever call is made
\* afterwards, and the step in which check_task returns leaves the stored
\* records as they were.
C13_CheckReturnsSnapshot ==
    /\ [][\A h \in Handles :
            Handed(h) => /\ rec'[h].status = rec[h].status
                         /\ rec'[h].is_running = rec[h].is_running]_vars
    /\ [][CheckTaskAlive(Main) => rec' = rec]_vars
\* ===================================================================
\* Properties of the status of a task_id (Spec)
\* ===================================================================

\* The registry-tracked status of a task_id: that of the record it maps to.
Status(id) ==
    IF background_tasks[id] = None THEN "absent"
    ELSE rec[background_tasks[id]].status

\* thread c is in the step of start_task(id, ...) that stores the new record
Starts(c, id) == StartTaskRegister(c, id, "sync")

\* thread c is in the step of stop_task(id) that writes the status
Stops(c, id) == StopTaskSet(c) /\ arg[c] = id

\* thread c is in the step of cleanup_task(id) that pops the entry
Cleans(c, id) == CleanupTaskPop(c) /\ arg[c] = id

\* C14 as stated: the status of a task_id changes only from absent to
\* running in start_task, from running to stopping in stop_task, and from
\* running or stopping to absent in cleanup_task; a stopping task_id is
\* never running in the next state.
C14_StatusTransitions ==
    [][\A id \in TaskIds :
         /\ Status(id)' # Status(id) =>
              \/ /\ Status(id) = "absent" /\ Status(id)' = "running"
                 /\ \E c \in Callers : Starts(c, id)
              \/ /\ Status(id) = "running" /\ Status(id)' = "stopping"
                 /\ \E c \in Callers : Stops(c, id)
              \/ /\ Status(id) \in {"running", "stopping"} /\ Status(id)' = "absent"
                 /\ \E c \in Callers : Cleans(c, id)
         /\ Status(id) = "stopping" => Status(id)' # "running"]_vars

\* C14, amended: besides the three transitions, start_task on a registered
\* task_id takes its status from running or stopping to running, by replacing
\* its record with a new one; nothing else changes the status or the record
\* of a task_id; and the status of one record never goes from stopping back
\* to running.
C14_StatusTransitionsWithOverwrite ==
    /\ [][\A id \in TaskIds :
            (Status(id)' # Status(id) \/ background_tasks'[id] # background_tasks[id]) =>
              \/ /\ Status(id) = "absent" /\ Status(id)' = "running"
                 /\ \E c \in Callers : Starts(c, id)
              \/ /\ Status(id) = "running" /\ Status(id)' = "stopping"
                 /\ background_tasks'[id] = background_tasks[id]
                 /\ \E c \in Callers : Stops(c, id)
              \/ /\ Status(id) \in {"running", "stopping"} /\ Status(id)' = "absent"
                 /\ \E c \in Callers : Cleans(c, id)
              \/ /\ Status(id) \in {"running", "stopping"} /\ Status(id)' = "running"
                 /\ background_tasks'[id] = nextHandle
                 /\ background_tasks[id] # nextHandle
                 /\ \E c \in Callers : Starts(c, id)]_vars
    /\ [][\A h \in Handles :
            rec[h].status = "stopping" => rec'[h].status = "stopping"]_vars

\* the only task_id ever started is running under its second record while
\* its first record, registered nowhere, says stopping
C14_Witness ==
    \E id \in TaskIds, old \in Handles :
        /\ started = {id}
        /\ Status(id) = "running"
        /\ background_tasks[id] # old
        /\ rec[old].status = "stopping"
\* ===================================================================
\* Properties of a stop request seen by a polling worker (FairPollSpec)
\* ===================================================================

\* C15: a stop request is durable. When stop_task(id) returns True the
\* record registered under id says "stopping"; the status of id stays
\* "stopping" in every step that is not the pop of cleanup_task(id) or the
\* store of start_task(id, ...); a check_task(id) that returns while the status
\* is "stopping" reports it, whether or not the thread is alive; and a worker
\* that polls its own id returns after the stop request, unless the id is
\* cleaned up or started anew first.
C15_StopIsDurable ==
    /\ [](ret.op = "stop" /\ ret.val = "true" =>
            /\ background_tasks[ret.id] = ret.h
            /\ Status(ret.id) = "stopping")
    /\ [][\A id \in TaskIds :
            Status(id) = "stopping" =>
               \/ Status(id)' = "stopping" /\ background_tasks'[id] = background_tasks[id]
               \/ Cleans(Main, id)
               \/ Starts(Main, id)]_vars
    /\ []((ret.op = "check" /\ Status(ret.id) = "stopping") =>
            /\ ret.val = "hit"
            /\ ret.h = background_tasks[ret.id]
            /\ rec[ret.h].status = "stopping")
    /\ \A h \in Handles, id \in TaskIds :
          (background_tasks[id] = h /\ rec[h].status = "stopping" /\ thr[h].st = "run")
              ~> (WorkOver(h) \/ background_tasks[id] # h)

\* check_task has just reported "stopping", not running, for a task whose
\* worker returned on reading the stop request
C15_Witness ==
    /\ ret.op = "check"
    /\ ret.val = "hit"
    /\ ret.running = "false"
    /\ background_tasks[ret.id] = ret.h
    /\ rec[ret.h].status = "stopping"
    /\ thr[ret.h].outcome = "returned"
\* ===================================================================
\* Properties of the calling thread (CallSpec)
\* ===================================================================

\* C16: the registry calls never wait on a task. Whatever the task threads
\* do or fail to do, a call that has begun can take its next step and comes
\* to its return; a thread between two calls can begin check_task, stop_task
\* and cleanup_task of any id; and when start_task returns the thread has
\* been started, with no condition on its work being over.
C16_CallsNeverWait ==
    /\ (pc[Main] # "idle") ~> (pc[Main] = "idle")
    /\ [](pc[Main] # "idle" => ENABLED Finish(Main))
    /\ [](Idle(Main) => \A id \in TaskIds :
            /\ ENABLED CheckTaskGet(Main, id)
            /\ ENABLED StopTaskTest(Main, id)
            /\ ENABLED CleanupTaskTest(Main, id))
    /\ [](ret.op = "start" => thr[ret.h].st # "new")
    /\ [][StartTaskReturn(Main) => thr' = thr]_vars

\* start_task has just returned while the work it launched and the work of
\* the task launched before it are both still running
C16_Witness ==
    /\ ret.op = "start"
    /\ thr[ret.h].st \in {"run", "loop"}
    /\ ~WorkOver(ret.h)
    /\ \E g \in Handles \ {ret.h} : thr[g].st \in {"run", "loop"} /\ ~WorkOver(g)
\* ===================================================================
\* Properties of cleanup_task on a running task (FairTaskSpec)
\* ===================================================================

\* C17: cleanup_task removes the record whether or not the thread is over,
\* and leaves the thread alone. When it returns the id is absent, so that
\* check_task(id) is empty and stop_task(id) is False; the id stays absent
\* until the store of a start_task(id, ...); no step of cleanup_task changes a
\* thread or a record; and a thread that is registered nowhere still runs
\* its work to the end.
C17_CleanupAbandons ==
    /\ [](ret.op = "cleanup" =>
            /\ ret.val = "none"
            /\ background_tasks[ret.id] = None
            /\ CheckNow(ret.id).val = "empty"
            /\ ~StopFound(background_tasks, ret.id))
    /\ [][((\E id \in TaskIds : CleanupTaskTest(Main, id)) \/ CleanupTaskPop(Main))
            => (thr' = thr /\ rec' = rec)]_vars
    /\ [][\A id \in TaskIds :
            (background_tasks[id] = None /\ background_tasks'[id] # None) =>
               \E k \in Kinds : StartTaskRegister(Main, id, k)]_vars
    /\ []((ret.op = "check" /\ background_tasks[ret.id] = None) => ret.val = "empty")
    /\ []((ret.op = "stop" /\ background_tasks[ret.id] = None) => ret.val = "false")
    /\ \A h \in Handles :
          (Orphan(h) /\ IsAlive(h) /\ ~WorkOver(h)) ~> (WorkOver(h) /\ ~IsAlive(h))

\* cleanup_task has just removed the record of a task whose work is still
\* running
C17_Witness ==
    /\ ret.op = "cleanup"
    /\ ret.h # None
    /\ Orphan(ret.h)
    /\ thr[ret.h].st \in {"run", "loop"}
    /\ ~WorkOver(ret.h)
\* ===================================================================
\* Properties of the registry in every state, callers concurrent (Spec)
\* ===================================================================

\* C18: in every reachable state, the states inside a start_task call
\* included, every registered task_id maps to a record that holds a Thread
\* object that has been created, the start_time read by the call that
\* created it, and the status "running" or "stopping".
C18_RecordsWellFormed ==
    \A id \in TaskIds :
        LET h == background_tasks[id] IN
          h # None =>
             /\ h \in Handles
             /\ h < nextHandle
             /\ thr[h].st # "unborn"
             /\ thr[h].kind \in Kinds
             /\ rec[h].start_time = Time(h)
             /\ rec[h].start_time # NoRec.start_time
             /\ rec[h].status \in {"running", "stopping"}

\* a start_task call has stored its record and not yet started the thread,
\* while another thread is inside a stop_task of the same id
C18_Witness ==
    \E c, d \in Callers :
        /\ pc[c] = "start_thread"
        /\ background_tasks[arg[c]] = local[c]
        /\ thr[local[c]].st = "new"
        /\ pc[d] = "stop_set"
        /\ arg[d] = arg[c]
\* ===================================================================
\* Properties of the event loops of asynchronous tasks (TaskSpec)
\* ===================================================================

\* C19: every asynchronous task has an event loop of its own. A loop exists
\* only for an asynchronous thread that has started and created it; only
\* that thread's own steps open or close it; the work is driven on its own
\* open loop, by a step that leaves every other thread as it was; the loop
\* is closed once the thread is over, whether the work returned or raised;
\* and a thread that has started can always take its next step, whatever
\* the other threads are doing.
C19_LoopPerTask ==
    /\ [](\A h \in Handles :
            thr[h].loop # "none" =>
               (thr[h].kind = "async" /\ thr[h].st \notin {"unborn", "new", "run"}))
    /\ [][\A h \in Handles :
            thr'[h].loop # thr[h].loop =>
               \/ AsyncNewLoop(h) /\ thr'[h].loop = "open"
               \/ AsyncLoopClose(h) /\ thr'[h].loop = "closed"]_vars
    /\ [][\A h \in Handles, o \in Outcomes :
            AsyncWorkEnd(h, o) =>
               /\ thr[h].loop = "open"
               /\ \A g \in Handles \ {h} : thr'[g] = thr[g]]_vars
    /\ [](\A h \in Handles :
            (thr[h].kind = "async" /\ thr[h].st \in {"exit", "dead"}) =>
               (WorkOver(h) /\ thr[h].loop = "closed"))
    /\ [](\A h \in Handles :
            thr[h].st \in {"run", "loop", "closing", "exit"} => ENABLED ThreadStep(h))

\* an asynchronous task's work raised and its loop is closed, while another
\* asynchronous task is still inside its work on its own open loop
C19_Witness ==
    \E h, g \in Handles :
        /\ thr[h].kind = "async"
        /\ thr[h].outcome = "raised"
        /\ thr[h].loop = "closed"
        /\ thr[g].kind = "async"
        /\ thr[g].loop = "open"
        /\ ~WorkOver(g)
\* ===================================================================
\* Properties of is_running under concurrent callers (Spec)
\* ===================================================================

\* C20: is_running false means the work is over. Whenever a check_task
\* called from any thread has just returned a record with is_running false,
\* the thread of that record has been started and its work has returned or
\* raised, and so has the work of the task registered under the id.
C20_NotRunningMeansOver ==
    (ret.op = "check" /\ ret.val = "hit" /\ ret.running = "false") =>
        /\ thr[ret.h].st # "new"
        /\ WorkOver(ret.h)
        /\ background_tasks[ret.id] # None => WorkOver(background_tasks[ret.id])
====
